---- MODULE Spec2Model ----
(***************************************************************************)
(* Model of ptouch-data: the PackBits codec, the P-touch command stream    *)
(* decoder (ptouch-decode) and the command stream encoder (ptouch-encode). *)
(* Bytes are the integers 0..255; a file or buffer is a sequence of bytes. *)
(***************************************************************************)
EXTENDS Integers, Sequences, FiniteSets

VARIABLES
    \* ---- PackBits codec harness (pack_bits, then unpack_bits) ----
    pb_mode,      \* "idle" | "roundtrip" (pack, then unpack) | "decode" (unpack only)
    pb_pc,        \* "idle" | "pack" | "unpack" | "done" | "panic"
    pb_bytes,     \* pack_bits: the argument `bytes`
    pb_i,         \* pack_bits: the index `i`
    pb_ret,       \* pack_bits: the vector `ret`
    up_buf,       \* unpack_bits: the argument `buf`
    up_pos,       \* unpack_bits: number of bytes `iter` has yielded
    up_ret,       \* unpack_bits: the vector `ret`
    \* ---- ptouch-decode: the input file and the reader ----
    pc,           \* "off" | "invalidate" | "skip" | "init" | "parse" | "pad"
                  \* | "png" | "done" | "fatal"
    err,          \* the panic message once pc = "fatal"
    hdr,          \* the bytes the file starts with, as first opened
    pos,          \* bytes consumed from print_data_buffering so far
    ahead,        \* the bytes of the file that follow the cursor, as far as
                  \* they are determined; when none is left at a command
                  \* boundary the file either ends there or goes on
    fed,          \* what the file has held after the initialize command:
                  \* counts of its commands, the last of them, and the
                  \* page announcements since the last reinitialize
    cmd_off,      \* offset of the command byte the loop read last (-1: none)
    \* ---- ptouch-decode: the locals of main ----
    raster_mode, media_type, media_width, media_length, raster_number,
    page_state, settings, compression_mode, pixel_data_width, parts, rows,
    height,
    png_buf,      \* the scanlines written to the PNG stream writer
    out_file,     \* the PNG path: None while it is not written, else Some(image)
    \* ---- ptouch-encode ----
    enc_pc,       \* "off" | "read" | "preamble" | "pages" | "flush" | "done" | "fatal"
    enc_err,      \* the panic message once enc_pc = "fatal"
    opts,         \* the parsed command line (without the paths)
    n_pngs,       \* opts.png_paths.len()
    images,       \* the PNG files opened so far, as decoded
    width,        \* Option: the width of the first image
    pages,        \* Vec of pages, each the Vec of its packed rows
    page_index,   \* index of the page the writer emits next
    out_buffy,    \* bytes written into the BufWriter, not yet in the file
    pt_file       \* opts.pt_path: None while not created, else Some(bytes)

pbVars == <<pb_mode, pb_pc, pb_bytes, pb_i, pb_ret, up_buf, up_pos, up_ret>>

readVars == <<hdr, pos, ahead, fed, cmd_off>>
parseVars == <<raster_mode, media_type, media_width, media_length, raster_number,
               page_state, settings, compression_mode, pixel_data_width, parts,
               rows>>
outVars == <<height, png_buf, out_file>>
decVars == <<pc, err, readVars, parseVars, outVars>>

encVars == <<enc_pc, enc_err, opts, n_pngs, images, width, pages, page_index,
             out_buffy, pt_file>>

vars == <<pbVars, decVars, encVars>>

\* ------------------------------------------------------------------------
\* Bounds of the model
\* ------------------------------------------------------------------------
MaxSegs == 2        \* runs concatenated to form an input of pack_bits
MaxUnpackLen == 3   \* length of a hand-made input of unpack_bits
MaxCmds == 3        \* commands in a captured file after the initialize command
MaxSettingCmds == 1 \* of these, commands that only record a printer setting
MaxPages == 3       \* PNG files given to ptouch-encode

\* ------------------------------------------------------------------------
\* Program constants
\* ------------------------------------------------------------------------
ESC == 27
InvalidateLen == 200
CH_AT == 64         \* b'@'
CH_i == 105         \* b'i'
CH_S == 83          \* b'S'
CH_a == 97          \* b'a'
CH_z == 122         \* b'z'
CH_M == 77          \* b'M'
CH_A == 65          \* b'A'
CH_K == 75          \* b'K'
CH_d == 100         \* b'd'
CH_BANG == 33       \* b'!'
CH_G == 71          \* b'G'
CH_Z == 90          \* b'Z'
FF == 12            \* 0x0C
SUB == 26           \* 0x1A
InfoLen == 10       \* [0u8; 10]
MaxRun == 128       \* "can't do more than 128"

\* ------------------------------------------------------------------------
\* Helpers
\* ------------------------------------------------------------------------
Min(a, b) == IF a < b THEN a ELSE b
Max(a, b) == IF a > b THEN a ELSE b

\* i8::from_le_bytes([u])
ToI8(u) == IF u >= 128 THEN u - 256 ELSE u
\* i8::to_ne_bytes(v)[0]
FromI8(v) == IF v < 0 THEN v + 256 ELSE v

Drop(s, n) == SubSeq(s, n + 1, Len(s))
Take(s, n) == SubSeq(s, 1, n)

\* ------------------------------------------------------------------------
\* pack_bits (ptouch-encode)
\* ------------------------------------------------------------------------
\* the least element of a non-empty set of integers
Least(S) == CHOOSE k \in S : \A j \in S : k <= j

\* the while loop of take_repeated: from i = 1, i advances while slice[i]
\* exists and equals slice[0]; the value of i when the loop ends
RepeatedScan(slice) ==
    Least({i \in 1..Len(slice) : i = Len(slice) \/ slice[i + 1] # slice[1]})

take_repeated(slice) ==
    IF Len(slice) = 0 THEN <<>> ELSE Take(slice, RepeatedScan(slice))

\* the while loop of take_verbatim: from i = 1, i advances while slice[i]
\* exists and differs from its predecessor; the value of i when the loop ends
VerbatimScan(slice) ==
    Least({i \in 1..Len(slice) : i = Len(slice) \/ slice[i] = slice[i + 1]})

take_verbatim(slice) ==
    IF Len(slice) = 0 THEN <<>> ELSE Take(slice, VerbatimScan(slice))

\* which arm one iteration of the while loop of pack_bits takes
PackTakesRepeat(bytes, i) ==
    Len(take_repeated(Drop(bytes, i))) > Len(take_verbatim(Drop(bytes, i)))

\* the repeat arm: returns the new i and the new ret
PackRepeatArm(bytes, i, ret) ==
    LET repeated_slice == take_repeated(Drop(bytes, i))
        repeat_count == Min(Len(repeated_slice), MaxRun)
        repeat_byte == FromI8(1 - repeat_count)
    IN  [i |-> i + Len(repeated_slice),
         ret |-> ret \o <<repeat_byte, repeated_slice[1]>>]

\* the verbatim arm: returns the new i and the new ret
PackVerbatimArm(bytes, i, ret) ==
    LET verbatim_slice == take_verbatim(Drop(bytes, i))
        verbatim_count == Min(Len(verbatim_slice), MaxRun)
        verbatim_byte == FromI8(verbatim_count - 1)
    IN  [i |-> i + Len(verbatim_slice),
         ret |-> ret \o <<verbatim_byte>> \o verbatim_slice]

PackIter(bytes, i, ret) ==
    IF PackTakesRepeat(bytes, i)
    THEN PackRepeatArm(bytes, i, ret)
    ELSE PackVerbatimArm(bytes, i, ret)

RECURSIVE PackLoop(_, _, _)
PackLoop(bytes, i, ret) ==
    IF i < Len(bytes)
    THEN LET n == PackIter(bytes, i, ret) IN PackLoop(bytes, n.i, n.ret)
    ELSE ret

pack_bits(bytes) == PackLoop(bytes, 0, <<>>)

\* ------------------------------------------------------------------------
\* unpack_bits (ptouch-decode)
\* ------------------------------------------------------------------------
Repeat(b, n) == [k \in 1..n |-> b]

\* a literal arm that copies what is left instead of panicking
UnpackLiteralArm_Lenient(buf, p, ret) ==
    LET instruction == ToI8(buf[p + 1])
        literal_byte_count == 1 + instruction
        upto == Min(Len(buf), p + 1 + literal_byte_count)
    IN  [panic |-> FALSE, p |-> upto, ret |-> ret \o SubSeq(buf, p + 2, upto)]

\* literal arm: copies 1 + instruction bytes; `expect` panics on a short read
UnpackLiteralArm(buf, p, ret) ==
    LET instruction == ToI8(buf[p + 1])
        literal_byte_count == 1 + instruction
    IN  IF p + 1 + literal_byte_count > Len(buf)
        THEN [panic |-> TRUE, p |-> Len(buf), ret |-> ret \o Drop(buf, p + 1)]
        ELSE [panic |-> FALSE, p |-> p + 1 + literal_byte_count,
              ret |-> ret \o SubSeq(buf, p + 2, p + 1 + literal_byte_count)]

\* instruction == -128: skip
UnpackSkipArm(buf, p, ret) ==
    [panic |-> FALSE, p |-> p + 1, ret |-> ret]

\* a repeat arm that repeats the value once too few
UnpackRepeatArm_OneLess(buf, p, ret) ==
    LET instruction == ToI8(buf[p + 1])
        repeat_count == 0 - instruction
    IN  IF p + 2 > Len(buf)
        THEN [panic |-> TRUE, p |-> Len(buf), ret |-> ret]
        ELSE [panic |-> FALSE, p |-> p + 2,
              ret |-> ret \o Repeat(buf[p + 2], repeat_count)]

\* repeated byte: `expect` panics when no value follows
UnpackRepeatArm(buf, p, ret) ==
    LET instruction == ToI8(buf[p + 1])
        repeat_count == 1 - instruction
    IN  IF p + 2 > Len(buf)
        THEN [panic |-> TRUE, p |-> Len(buf), ret |-> ret]
        ELSE [panic |-> FALSE, p |-> p + 2,
              ret |-> ret \o Repeat(buf[p + 2], repeat_count)]

UnpackIter(buf, p, ret) ==
    LET instruction == ToI8(buf[p + 1])
    IN  IF instruction >= 0 THEN UnpackLiteralArm(buf, p, ret)
        ELSE IF instruction = -128 THEN UnpackSkipArm(buf, p, ret)
        ELSE UnpackRepeatArm(buf, p, ret)

RECURSIVE UnpackLoop(_, _, _)
UnpackLoop(buf, p, ret) ==
    IF p < Len(buf)
    THEN LET n == UnpackIter(buf, p, ret)
         IN  IF n.panic THEN [ok |-> FALSE, ret |-> <<>>]
             ELSE UnpackLoop(buf, n.p, n.ret)
    ELSE [ok |-> TRUE, ret |-> ret]

\* [ok |-> FALSE] stands for the panic; nothing is returned then
unpack_bits(buf) == UnpackLoop(buf, 0, <<>>)

\* ------------------------------------------------------------------------
\* Inputs of the codec harness
\* ------------------------------------------------------------------------
RunLens == {1, 2, 127, 128, 129}
RunBytes == {0, 1}

\* n bytes a, b, a, b, ... (pairwise distinct neighbours when a # b)
Alternating(a, b, n) == [k \in 1..n |-> IF k % 2 = 1 THEN a ELSE b]

Segments ==
    {Alternating(a, b, n) : a \in RunBytes, b \in RunBytes, n \in RunLens}

RECURSIVE SegConcat(_)
SegConcat(n) ==
    IF n = 0 THEN {<<>>}
    ELSE LET shorter == SegConcat(n - 1)
         IN  shorter \cup {s \o t : s \in shorter, t \in Segments}

PackInputs == SegConcat(MaxSegs)

\* instruction bytes 0, 1, 2 (literal), 0x80 (skip), 0xFE, 0xFF (repeat)
UnpackBytes == {0, 1, 2, 128, 254, 255}

RECURSIVE SeqsUpTo(_, _)
SeqsUpTo(S, n) ==
    IF n = 0 THEN {<<>>}
    ELSE LET shorter == SeqsUpTo(S, n - 1)
         IN  shorter \cup {Append(s, x) : s \in shorter, x \in S}

UnpackInputs == SeqsUpTo(UnpackBytes, MaxUnpackLen)

\* ------------------------------------------------------------------------
\* The codec harness: pack_bits on an input, then unpack_bits on the result;
\* or unpack_bits on a hand-made buffer.
\* ------------------------------------------------------------------------
PBIdle ==
    /\ pb_mode = "idle"
    /\ pb_pc = "idle" /\ pb_bytes = <<>> /\ pb_i = 0 /\ pb_ret = <<>>
    /\ up_buf = <<>> /\ up_pos = 0 /\ up_ret = <<>>

InitPB ==
    \/ /\ pb_mode = "roundtrip"
       /\ pb_pc = "pack"
       /\ pb_bytes \in PackInputs
       /\ pb_i = 0 /\ pb_ret = <<>>
       /\ up_buf = <<>> /\ up_pos = 0 /\ up_ret = <<>>
    \/ /\ pb_mode = "decode"
       /\ pb_pc = "unpack"
       /\ pb_bytes = <<>> /\ pb_i = 0 /\ pb_ret = <<>>
       /\ up_buf \in UnpackInputs
       /\ up_pos = 0 /\ up_ret = <<>>

PackRepeat ==
    /\ pb_pc = "pack"
    /\ pb_i < Len(pb_bytes)
    /\ PackTakesRepeat(pb_bytes, pb_i)
    /\ LET n == PackRepeatArm(pb_bytes, pb_i, pb_ret)
       IN  pb_i' = n.i /\ pb_ret' = n.ret
    /\ UNCHANGED <<pb_mode, pb_pc, pb_bytes, up_buf, up_pos, up_ret, decVars, encVars>>

PackVerbatim ==
    /\ pb_pc = "pack"
    /\ pb_i < Len(pb_bytes)
    /\ ~PackTakesRepeat(pb_bytes, pb_i)
    /\ LET n == PackVerbatimArm(pb_bytes, pb_i, pb_ret)
       IN  pb_i' = n.i /\ pb_ret' = n.ret
    /\ UNCHANGED <<pb_mode, pb_pc, pb_bytes, up_buf, up_pos, up_ret, decVars, encVars>>

\* pack_bits returns ret; the result is handed to unpack_bits
PackReturn ==
    /\ pb_pc = "pack"
    /\ pb_i >= Len(pb_bytes)
    /\ pb_pc' = "unpack"
    /\ up_buf' = pb_ret
    /\ up_pos' = 0 /\ up_ret' = <<>>
    /\ UNCHANGED <<pb_mode, pb_bytes, pb_i, pb_ret, decVars, encVars>>

UnpackApply(n) ==
    /\ up_pos' = n.p
    /\ up_ret' = n.ret
    /\ pb_pc' = IF n.panic THEN "panic" ELSE "unpack"
    /\ UNCHANGED <<pb_mode, pb_bytes, pb_i, pb_ret, up_buf, decVars, encVars>>

UnpackLiteral ==
    /\ pb_pc = "unpack"
    /\ up_pos < Len(up_buf)
    /\ ToI8(up_buf[up_pos + 1]) >= 0
    /\ UnpackApply(UnpackLiteralArm(up_buf, up_pos, up_ret))

UnpackSkip ==
    /\ pb_pc = "unpack"
    /\ up_pos < Len(up_buf)
    /\ ToI8(up_buf[up_pos + 1]) = -128
    /\ UnpackApply(UnpackSkipArm(up_buf, up_pos, up_ret))

UnpackRepeat ==
    /\ pb_pc = "unpack"
    /\ up_pos < Len(up_buf)
    /\ ToI8(up_buf[up_pos + 1]) < 0
    /\ ToI8(up_buf[up_pos + 1]) # -128
    /\ UnpackApply(UnpackRepeatArm(up_buf, up_pos, up_ret))

\* the iterator is exhausted: unpack_bits returns ret
UnpackReturn ==
    /\ pb_pc = "unpack"
    /\ up_pos >= Len(up_buf)
    /\ pb_pc' = "done"
    /\ UNCHANGED <<pb_mode, pb_bytes, pb_i, pb_ret, up_buf, up_pos, up_ret, decVars, encVars>>

NextPB ==
    \/ PackRepeat
    \/ PackVerbatim
    \/ PackReturn
    \/ UnpackLiteral
    \/ UnpackSkip
    \/ UnpackRepeat
    \/ UnpackReturn


\* ------------------------------------------------------------------------
\* ptouch-decode: state
\* ------------------------------------------------------------------------
None == <<>>
Some(x) == <<x>>

\* bit k (0 = least significant) of byte b: (b & (1 << k)) != 0
Bit(b, k) == (b \div (2 ^ k)) % 2 = 1

Zeros(n) == [k \in 1..n |-> 0]

NoSettings ==
    [printer_recovery |-> FALSE,
     auto_cut |-> None, mirror_print |-> None, draft |-> None,
     half_cut |-> None, no_chain |-> None, special_tape |-> None,
     hi_res |-> None, dont_clean_print_buffer |-> None,
     feed_amount |-> None, cut_each_n_labels |-> None]

LabelData(rs) == [kind |-> "LabelData", rows |-> rs]
PartPrint == [kind |-> "Print", rows |-> <<>>]
PartPrintFeed == [kind |-> "PrintFeed", rows |-> <<>>]

NothingFed ==
    [cmds |-> 0, settings |-> 0, rowcmds |-> 0, printcmds |-> 0, gbytes |-> 0,
     last |-> <<>>, announced |-> <<>>]

\* the locals of main as declared before the command loop
LocalsInit ==
    /\ raster_mode = FALSE
    /\ media_type = None /\ media_width = None /\ media_length = None
    /\ raster_number = None
    /\ page_state = "BeforeFirst"
    /\ settings = NoSettings
    /\ compression_mode = "Raw"
    /\ pixel_data_width = 0
    /\ parts = <<>> /\ rows = <<>>
    /\ height = 0 /\ png_buf = <<>> /\ out_file = None

\* ptouch-decode is not running
DecOff ==
    /\ pc = "off" /\ err = "" /\ hdr = <<>> /\ pos = 0 /\ ahead = <<>>
    /\ fed = NothingFed /\ cmd_off = -1
    /\ LocalsInit

\* ------------------------------------------------------------------------
\* The captured files ptouch-decode is run on: what they start with
\* ------------------------------------------------------------------------
InitCmd == <<ESC, CH_AT>>

\* headers the validator accepts; the commands after them come later
GoodHeaders == {Zeros(InvalidateLen + k) \o InitCmd : k \in {0, 1, 3}}

\* whole files the validator must reject
BadFiles ==
    {Zeros(InvalidateLen - 1),
     Zeros(InvalidateLen - 1) \o InitCmd,
     Zeros(60) \o <<1>> \o Zeros(InvalidateLen - 61) \o InitCmd,
     <<ESC, CH_AT>>,
     Zeros(InvalidateLen),
     Zeros(InvalidateLen + 2),
     Zeros(InvalidateLen) \o <<ESC>>,
     Zeros(InvalidateLen + 1) \o <<ESC, CH_A>>,
     Zeros(InvalidateLen) \o <<1, CH_AT>>,
     Zeros(InvalidateLen) \o <<CH_AT, ESC>>}

InitCapture ==
    /\ pc = "invalidate" /\ err = ""
    /\ hdr \in GoodHeaders \cup BadFiles
    /\ ahead = hdr
    /\ pos = 0 /\ fed = NothingFed /\ cmd_off = -1
    /\ LocalsInit

\* ------------------------------------------------------------------------
\* Reading from print_data_buffering
\* ------------------------------------------------------------------------
\* n bytes are consumed
Advance(n) == pos' = pos + n /\ ahead' = Drop(ahead, n)

\* a panic after n bytes of the current step were consumed
Panic(n, msg) ==
    /\ Advance(n)
    /\ pc' = "fatal" /\ err' = msg
    /\ UNCHANGED <<hdr, fed, parseVars, outVars, pbVars, encVars>>

\* read_exact hits the end of the file: everything left is consumed
ShortRead(msg) == Panic(Len(ahead), msg)

\* a skip_while that consumes nothing
skip_while_Nothing(buf, byte) == 0

\* BufReadExt::skip_while(byte): the number of bytes it consumes. The file is
\* shorter than the reader's buffer, so fill_buf returns all that is left:
\* the first pass consumes the leading bytes equal to `byte`, the second
\* pass stops (EOF, or until_pos == 0).
skip_while(buf, byte) ==
    IF Len(buf) = 0 THEN 0
    ELSE Least({n \in 0..Len(buf) : n = Len(buf) \/ buf[n + 1] # byte})

\* ------------------------------------------------------------------------
\* The invalidate / initialize validation
\* ------------------------------------------------------------------------
\* read 200 bytes to ensure we have an invalidate command
ReadInvalidate ==
    /\ pc = "invalidate"
    /\ IF Len(ahead) < InvalidateLen
       THEN ShortRead("failed to read invalidate command")
       ELSE IF \E k \in 1..InvalidateLen : ahead[k] # 0
       THEN Panic(InvalidateLen, "print data does not start with a valid invalidate command")
       ELSE /\ Advance(InvalidateLen)
            /\ pc' = "skip"
            /\ UNCHANGED <<err, hdr, fed, parseVars, outVars, pbVars, encVars>>
    /\ UNCHANGED cmd_off

\* skip over all following 0 bytes
SkipZeros ==
    /\ pc = "skip"
    /\ Advance(skip_while(ahead, 0))
    /\ pc' = "init"
    /\ UNCHANGED <<err, hdr, fed, cmd_off, parseVars, outVars, pbVars, encVars>>

\* read 2 bytes to ensure we start with an initialize command
ReadInit ==
    /\ pc = "init"
    /\ IF Len(ahead) < 2
       THEN ShortRead("failed to read init command")
       ELSE IF ahead[1] # ESC \/ ahead[2] # CH_AT
       THEN Panic(2, "first command is not init")
       ELSE /\ Advance(2)
            /\ pc' = "parse"
            /\ UNCHANGED <<err, hdr, fed, parseVars, outVars, pbVars, encVars>>
    /\ UNCHANGED cmd_off

\* ------------------------------------------------------------------------
\* The command loop: one action per arm of the dispatch, each from the read
\* of the command byte to the end of the arm
\* ------------------------------------------------------------------------
\* the arm ends normally after consuming n bytes; the loop goes on
Continue(n) ==
    /\ Advance(n)
    /\ pc' = "parse"
    /\ UNCHANGED <<err, hdr, fed, outVars, pbVars, encVars>>

\* the loop has read the command byte b at offset pos
AtCmd(b) ==
    /\ pc = "parse"
    /\ Len(ahead) >= 1 /\ ahead[1] = b
    /\ cmd_off' = pos

AtEsc(t) == AtCmd(ESC) /\ Len(ahead) >= 2 /\ ahead[2] = t

AtEscI(t) == AtEsc(CH_i) /\ Len(ahead) >= 3 /\ ahead[3] = t

\* Ok(0): EOF at a command boundary ends the loop; the rows in progress
\* become the closing LabelData part
CmdEOF ==
    /\ pc = "parse"
    /\ ahead = <<>>
    /\ parts' = Append(parts, LabelData(rows))
    /\ pc' = "pad"
    /\ UNCHANGED <<err, readVars, raster_mode, media_type, media_width,
                   media_length, raster_number, page_state, settings,
                   compression_mode, pixel_data_width, rows, outVars, pbVars,
                   encVars>>

EscTruncated ==
    /\ AtCmd(ESC) /\ Len(ahead) = 1
    /\ ShortRead("failed to read type of escape")

\* a reinitialize that also leaves raster mode and PackBits
CmdReinit_Full ==
    /\ AtEsc(CH_AT)
    /\ media_type' = None /\ media_width' = None /\ media_length' = None
    /\ raster_number' = None
    /\ page_state' = "BeforeFirst"
    /\ raster_mode' = FALSE
    /\ compression_mode' = "Raw"
    /\ Continue(2)
    /\ UNCHANGED <<settings, pixel_data_width, parts, rows>>

\* ESC @: reinitialize; raster_mode does not change
CmdReinit ==
    /\ AtEsc(CH_AT)
    /\ media_type' = None /\ media_width' = None /\ media_length' = None
    /\ raster_number' = None
    /\ page_state' = "BeforeFirst"
    /\ Continue(2)
    /\ UNCHANGED <<raster_mode, settings, compression_mode, pixel_data_width,
                   parts, rows>>

EscUnexpected ==
    /\ AtCmd(ESC) /\ Len(ahead) >= 2 /\ ahead[2] \notin {CH_AT, CH_i}
    /\ Panic(2, "unexpected ESC command")

EscITruncated ==
    /\ AtEsc(CH_i) /\ Len(ahead) = 2
    /\ ShortRead("failed to read type of ESC i")

\* ESC i S: status info request, nothing to do
CmdStatusRequest ==
    /\ AtEscI(CH_S)
    /\ Continue(3)
    /\ UNCHANGED parseVars

\* ESC i a: switch print data language
CmdSwitchLanguage ==
    /\ AtEscI(CH_a)
    /\ IF Len(ahead) < 4
       THEN ShortRead("failed to read print data language to which to switch")
       ELSE IF ahead[4] = 1
       THEN /\ raster_mode' = TRUE
            /\ Continue(4)
            /\ UNCHANGED <<media_type, media_width, media_length, raster_number,
                           page_state, settings, compression_mode,
                           pixel_data_width, parts, rows>>
       ELSE IF ahead[4] = 0
       THEN Panic(4, "attempting to switch to ESC/P which we do not support")
       ELSE IF ahead[4] = 3
       THEN Panic(4, "attempting to switch to P-touch Template Mode which we do not support")
       ELSE Panic(4, "unknown print data language")

\* a page announcement that takes "midway" in any state but Last
AnnouncePage_Lax(state, value) ==
    IF value = 0
    THEN IF state = "BeforeFirst"
         THEN [ok |-> TRUE, state |-> "First", msg |-> ""]
         ELSE [ok |-> FALSE, state |-> state, msg |-> "announcing first page in state"]
    ELSE IF value = 1
    THEN IF state # "Last"
         THEN [ok |-> TRUE, state |-> "Other", msg |-> ""]
         ELSE [ok |-> FALSE, state |-> state, msg |-> "announcing midway page in state"]
    ELSE IF value = 2
    THEN IF state # "Last"
         THEN [ok |-> TRUE, state |-> "Last", msg |-> ""]
         ELSE [ok |-> FALSE, state |-> state, msg |-> "announcing last page in state"]
    ELSE [ok |-> FALSE, state |-> state, msg |-> "unknown page announcement byte"]

\* a page announcement that takes "last" in every state
AnnouncePage_LastAgain(state, value) ==
    IF value = 0
    THEN IF state = "BeforeFirst"
         THEN [ok |-> TRUE, state |-> "First", msg |-> ""]
         ELSE [ok |-> FALSE, state |-> state, msg |-> "announcing first page in state"]
    ELSE IF value = 1
    THEN IF state \in {"First", "Other"}
         THEN [ok |-> TRUE, state |-> "Other", msg |-> ""]
         ELSE [ok |-> FALSE, state |-> state, msg |-> "announcing midway page in state"]
    ELSE IF value = 2
    THEN [ok |-> TRUE, state |-> "Last", msg |-> ""]
    ELSE [ok |-> FALSE, state |-> state, msg |-> "unknown page announcement byte"]

\* the page announcement: the match on info_buf[8]
AnnouncePage(state, value) ==
    IF value = 0
    THEN IF state = "BeforeFirst"
         THEN [ok |-> TRUE, state |-> "First", msg |-> ""]
         ELSE [ok |-> FALSE, state |-> state, msg |-> "announcing first page in state"]
    ELSE IF value = 1
    THEN IF state = "First" \/ state = "Other"
         THEN [ok |-> TRUE, state |-> "Other", msg |-> ""]
         ELSE [ok |-> FALSE, state |-> state, msg |-> "announcing midway page in state"]
    ELSE IF value = 2
    THEN IF state # "Last"
         THEN [ok |-> TRUE, state |-> "Last", msg |-> ""]
         ELSE [ok |-> FALSE, state |-> state, msg |-> "announcing last page in state"]
    ELSE [ok |-> FALSE, state |-> state, msg |-> "unknown page announcement byte"]

\* ESC i z: print information, 10 bytes; info_buf[k] is ahead[4 + k]
CmdPrintInfo ==
    /\ AtEscI(CH_z)
    /\ IF Len(ahead) < 3 + InfoLen
       THEN ShortRead("failed to read print information command data")
       ELSE LET info_buf == SubSeq(ahead, 4, 3 + InfoLen)
                ann == AnnouncePage(page_state, info_buf[9])
            IN  IF ~ann.ok
                THEN Panic(3 + InfoLen, ann.msg)
                ELSE /\ media_type' =
                            IF Bit(info_buf[1], 1) THEN Some(info_buf[2]) ELSE media_type
                     /\ media_width' =
                            IF Bit(info_buf[1], 2) THEN Some(info_buf[3]) ELSE media_width
                     /\ media_length' =
                            IF Bit(info_buf[1], 3) THEN Some(info_buf[4]) ELSE media_length
                     /\ raster_number' =
                            Some(info_buf[5] + 256 * info_buf[6] + 65536 * info_buf[7]
                                 + 16777216 * info_buf[8])
                     /\ page_state' = ann.state
                     /\ Continue(3 + InfoLen)
                     /\ UNCHANGED <<raster_mode, settings, compression_mode,
                                    pixel_data_width, parts, rows>>

\* an arm that reads n payload bytes after ESC i <t> and records a setting
SettingArm(n, msg, new_settings) ==
    IF Len(ahead) < 3 + n
    THEN ShortRead(msg)
    ELSE /\ settings' = new_settings
         /\ Continue(3 + n)
         /\ UNCHANGED <<raster_mode, media_type, media_width, media_length,
                        raster_number, page_state, compression_mode,
                        pixel_data_width, parts, rows>>

\* ESC i M: mode
CmdPrintMode ==
    /\ AtEscI(CH_M)
    /\ SettingArm(1, "failed to read print mode command data",
                  [settings EXCEPT !.auto_cut = Some(Bit(ahead[4], 6)),
                                   !.mirror_print = Some(Bit(ahead[4], 7))])

\* ESC i A: cut after sets of how many labels
CmdCutEvery ==
    /\ AtEscI(CH_A)
    /\ SettingArm(1, "failed to read count data",
                  [settings EXCEPT !.cut_each_n_labels = Some(ahead[4])])

\* ESC i K: advanced settings
CmdAdvanced ==
    /\ AtEscI(CH_K)
    /\ SettingArm(1, "failed to read print mode command data",
                  [settings EXCEPT !.draft = Some(Bit(ahead[4], 0)),
                                   !.half_cut = Some(Bit(ahead[4], 2)),
                                   !.no_chain = Some(Bit(ahead[4], 3)),
                                   !.special_tape = Some(Bit(ahead[4], 4)),
                                   !.hi_res = Some(Bit(ahead[4], 6)),
                                   !.dont_clean_print_buffer = Some(Bit(ahead[4], 7))])

\* ESC i d: feed amount, u16 little-endian
CmdFeedAmount ==
    /\ AtEscI(CH_d)
    /\ SettingArm(2, "failed to read feed amount",
                  [settings EXCEPT !.feed_amount = Some(ahead[4] + 256 * ahead[5])])

\* ESC i !: auto status notification mode, nothing read
CmdAutoStatus ==
    /\ AtEscI(CH_BANG)
    /\ Continue(3)
    /\ UNCHANGED parseVars

EscIUnexpected ==
    /\ AtEsc(CH_i) /\ Len(ahead) >= 3
    /\ ahead[3] \notin {CH_S, CH_a, CH_z, CH_M, CH_A, CH_K, CH_d, CH_BANG}
    /\ Panic(3, "unexpected ESC i command")

\* a select compression arm with the two modes exchanged
CmdSelectCompression_Swapped ==
    /\ AtCmd(CH_M)
    /\ IF Len(ahead) < 2
       THEN ShortRead("failed to read select compression mode data")
       ELSE IF ahead[2] \in {0, 2}
       THEN /\ compression_mode' = IF ahead[2] = 0 THEN "PackBits" ELSE "Raw"
            /\ Continue(2)
            /\ UNCHANGED <<raster_mode, media_type, media_width, media_length,
                           raster_number, page_state, settings,
                           pixel_data_width, parts, rows>>
       ELSE Panic(2, "unsupported compression mode")

\* M: select compression mode
CmdSelectCompression ==
    /\ AtCmd(CH_M)
    /\ IF Len(ahead) < 2
       THEN ShortRead("failed to read select compression mode data")
       ELSE IF ahead[2] \in {0, 2}
       THEN /\ compression_mode' = IF ahead[2] = 0 THEN "Raw" ELSE "PackBits"
            /\ Continue(2)
            /\ UNCHANGED <<raster_mode, media_type, media_width, media_length,
                           raster_number, page_state, settings,
                           pixel_data_width, parts, rows>>
       ELSE Panic(2, "unsupported compression mode")

\* one pixel per bit, least significant bit first
ExpandBits_LsbFirst(raw_buf) ==
    [k \in 1..(8 * Len(raw_buf)) |->
        IF Bit(raw_buf[((k - 1) \div 8) + 1], (k - 1) % 8) THEN 1 ELSE 0]

\* one pixel per bit, most significant bit first
RECURSIVE ExpandBits(_)
ExpandBits(raw_buf) ==
    IF raw_buf = <<>> THEN <<>>
    ELSE [k \in 1..8 |-> IF Bit(raw_buf[1], 8 - k) THEN 1 ELSE 0]
         \o ExpandBits(Tail(raw_buf))

\* a 'G' arm that reads the length before it checks the raster mode
CmdRasterTransfer_LateCheck ==
    /\ AtCmd(CH_G)
    /\ IF Len(ahead) < 3
       THEN ShortRead("failed to read raster graphics transfer length")
       ELSE IF ~raster_mode
       THEN Panic(3, "raster graphics transfer without raster mode entered")
       ELSE LET byte_count == ahead[2] + 256 * ahead[3]
                raster_buf == SubSeq(ahead, 4, 3 + byte_count)
                unpacked == unpack_bits(raster_buf)
                raw_buf == IF compression_mode = "PackBits"
                           THEN unpacked.ret ELSE raster_buf
            IN  IF Len(ahead) < 3 + byte_count
                THEN ShortRead("failed to read raster graphics data")
                ELSE IF compression_mode = "PackBits" /\ ~unpacked.ok
                THEN Panic(3 + byte_count, "unpack_bits: short read")
                ELSE /\ pixel_data_width' = Max(pixel_data_width, Len(raw_buf) * 8)
                     /\ rows' = Append(rows, ExpandBits(raw_buf))
                     /\ Continue(3 + byte_count)
                     /\ UNCHANGED <<raster_mode, media_type, media_width,
                                    media_length, raster_number, page_state,
                                    settings, compression_mode, parts>>

\* G: raster graphics transfer
CmdRasterTransfer ==
    /\ AtCmd(CH_G)
    /\ IF ~raster_mode
       THEN Panic(1, "raster graphics transfer without raster mode entered")
       ELSE IF Len(ahead) < 3
       THEN ShortRead("failed to read raster graphics transfer length")
       ELSE LET byte_count == ahead[2] + 256 * ahead[3]
                raster_buf == SubSeq(ahead, 4, 3 + byte_count)
                unpacked == unpack_bits(raster_buf)
                raw_buf == IF compression_mode = "PackBits"
                           THEN unpacked.ret ELSE raster_buf
            IN  IF Len(ahead) < 3 + byte_count
                THEN ShortRead("failed to read raster graphics data")
                ELSE IF compression_mode = "PackBits" /\ ~unpacked.ok
                THEN Panic(3 + byte_count, "unpack_bits: short read")
                ELSE /\ pixel_data_width' = Max(pixel_data_width, Len(raw_buf) * 8)
                     /\ rows' = Append(rows, ExpandBits(raw_buf))
                     /\ Continue(3 + byte_count)
                     /\ UNCHANGED <<raster_mode, media_type, media_width,
                                    media_length, raster_number, page_state,
                                    settings, compression_mode, parts>>

\* a 'Z' arm without the raster mode check
CmdZeroRaster_Unchecked ==
    /\ AtCmd(CH_Z)
    /\ rows' = Append(rows, <<>>)
    /\ Continue(1)
    /\ UNCHANGED <<raster_mode, media_type, media_width, media_length,
                   raster_number, page_state, settings, compression_mode,
                   pixel_data_width, parts>>

\* Z: zero raster graphics
CmdZeroRaster ==
    /\ AtCmd(CH_Z)
    /\ IF ~raster_mode
       THEN Panic(1, "zero raster graphics transfer without raster mode entered")
       ELSE /\ rows' = Append(rows, <<>>)
            /\ Continue(1)
            /\ UNCHANGED <<raster_mode, media_type, media_width, media_length,
                           raster_number, page_state, settings, compression_mode,
                           pixel_data_width, parts>>

\* a print arm that pushes the marker only
PrintArm_MarkerOnly(marker) ==
    /\ parts' = Append(parts, marker)
    /\ rows' = <<>>
    /\ Continue(1)
    /\ UNCHANGED <<raster_mode, media_type, media_width, media_length,
                   raster_number, page_state, settings, compression_mode,
                   pixel_data_width>>

\* the 0x0C and 0x1A arms: the rows so far become a LabelData part,
\* followed by the marker
PrintArm(marker) ==
    /\ parts' = parts \o <<LabelData(rows), marker>>
    /\ rows' = <<>>
    /\ Continue(1)
    /\ UNCHANGED <<raster_mode, media_type, media_width, media_length,
                   raster_number, page_state, settings, compression_mode,
                   pixel_data_width>>

\* 0x0C: form feed = print
CmdFormFeed == AtCmd(FF) /\ PrintArm(PartPrint)

\* 0x1A: substitute = print with feeding
CmdSubstitute == AtCmd(SUB) /\ PrintArm(PartPrintFeed)

\* an unknown command byte is passed over
CmdUnexpected_Skipped ==
    /\ pc = "parse"
    /\ Len(ahead) >= 1
    /\ ahead[1] \notin {ESC, CH_M, CH_G, CH_Z, FF, SUB}
    /\ cmd_off' = pos
    /\ Continue(1)
    /\ UNCHANGED parseVars

CmdUnexpected ==
    /\ pc = "parse"
    /\ Len(ahead) >= 1
    /\ ahead[1] \notin {ESC, CH_M, CH_G, CH_Z, FF, SUB}
    /\ cmd_off' = pos
    /\ Panic(1, "unexpected command byte")

\* ------------------------------------------------------------------------
\* After the loop: padding, height, PNG output
\* ------------------------------------------------------------------------
RowsOf(ps) == UNION {{ps[j].rows[k] : k \in 1..Len(ps[j].rows)} : j \in 1..Len(ps)}

\* a resize that only ever truncates
Resize_NoFill(row, w) == SubSeq(row, 1, Min(Len(row), w))

\* row.resize(width, 0x00)
Resize(row, w) ==
    [k \in 1..w |-> IF k <= Len(row) THEN row[k] ELSE 0]

PadPart(part, w) ==
    IF part.kind = "LabelData"
    THEN LabelData([k \in 1..Len(part.rows) |-> Resize(part.rows[k], w)])
    ELSE part

\* a height that counts the rows only
RECURSIVE HeightOf_RowsOnly(_)
HeightOf_RowsOnly(ps) ==
    IF ps = <<>> THEN 0
    ELSE (IF ps[1].kind = "LabelData" THEN Len(ps[1].rows) ELSE 0)
         + HeightOf_RowsOnly(Tail(ps))

RECURSIVE HeightOf(_)
HeightOf(ps) ==
    IF ps = <<>> THEN 0
    ELSE (IF ps[1].kind = "LabelData" THEN Len(ps[1].rows) ELSE 1) + HeightOf(Tail(ps))

\* update the parts to match the image w and calculate the image height
Pad ==
    /\ pc = "pad"
    /\ IF \E row \in RowsOf(parts) : Len(row) > pixel_data_width
       THEN /\ pc' = "fatal"
            /\ err' = "assertion failed: row.len() <= pixel_data_width"
            /\ UNCHANGED <<parts, height>>
       ELSE /\ parts' = [k \in 1..Len(parts) |-> PadPart(parts[k], pixel_data_width)]
            /\ height' = HeightOf(parts)
            /\ pc' = "png" /\ UNCHANGED err
    /\ UNCHANGED <<readVars, raster_mode, media_type, media_width, media_length,
                   raster_number, page_state, settings, compression_mode,
                   pixel_data_width, rows, png_buf, out_file, pbVars, encVars>>

\* the scanlines a part writes into the PNG stream
ScanlinesOfPart(part, w) ==
    IF part.kind = "LabelData" THEN part.rows
    ELSE IF part.kind = "Print" THEN <<Repeat(2, w)>>
    ELSE <<Repeat(3, w)>>

RECURSIVE Scanlines(_, _)
Scanlines(ps, w) ==
    IF ps = <<>> THEN <<>>
    ELSE ScanlinesOfPart(ps[1], w) \o Scanlines(Tail(ps), w)

\* the PNG is written as soon as the loop has ended, before the padding
WritePng_BeforePadding ==
    /\ pc = "pad"
    /\ png_buf' = Scanlines(parts, pixel_data_width)
    /\ out_file' = Some([width |-> pixel_data_width, height |-> height,
                         lines |-> png_buf'])
    /\ pc' = "done"
    /\ UNCHANGED <<err, readVars, parseVars, height, pbVars, encVars>>

\* output as PNG, then std::fs::write
WritePng ==
    /\ pc = "png"
    /\ png_buf' = Scanlines(parts, pixel_data_width)
    /\ out_file' = Some([width |-> pixel_data_width, height |-> height,
                         lines |-> png_buf'])
    /\ pc' = "done"
    /\ UNCHANGED <<err, readVars, parseVars, height, pbVars, encVars>>

\* write_header().expect(..): the PNG encoder may refuse an image without
\* pixels
PngHeaderFails ==
    /\ pc = "png"
    /\ pixel_data_width = 0 \/ height = 0
    /\ pc' = "fatal" /\ err' = "failed to write PNG header"
    /\ UNCHANGED <<readVars, parseVars, outVars, pbVars, encVars>>

\* ------------------------------------------------------------------------
\* The captured file after the initialize command: it is determined one
\* command at a time, when the loop is about to read the next command byte
\* ------------------------------------------------------------------------
\* a chunk of the file: its bytes; whether it is a whole command that only
\* records a setting; whether it is a whole 'G' or 'Z' command, or a whole
\* 0x0C or 0x1A command; for 'G', the length of its payload and the length
\* its payload expands to as PackBits
Chunk(bytes, setting, rowcmd, printcmd, payload_len, expanded_len) ==
    [bytes |-> bytes, setting |-> setting, rowcmd |-> rowcmd,
     printcmd |-> printcmd, payload_len |-> payload_len,
     expanded_len |-> expanded_len]

Plain(bytes) == Chunk(bytes, FALSE, 0, 0, 0, 0)
Setting(bytes) == Chunk(bytes, TRUE, 0, 0, 0, 0)

\* ESC i z with the presence flags, the three media bytes, the row count
\* and the page announcement
PrintInfoCmd(flags, page) ==
    <<ESC, CH_i, CH_z, flags, 1, 12, 0, 2, 0, 0, 0, page, 0>>

\* 'G' commands: payload, and the length it expands to as PackBits (-1: it
\* is no whole PackBits stream)
\*   <<>>          nothing
\*   00 A5         literal of one byte
\*   FE FF         FF three times
\*   7F 01         literal of 128 bytes, of which one is there
\*   FF            repeat instruction, and no byte to repeat
GCmd(payload, expanded_len) ==
    Chunk(<<CH_G, Len(payload), 0>> \o payload, FALSE, 1, 0, Len(payload), expanded_len)

WholeCommands ==
    {Plain(<<ESC, CH_AT>>),
     Plain(<<ESC, CH_i, CH_a, 1>>),
     Plain(<<ESC, CH_i, CH_a, 0>>),
     Plain(<<ESC, CH_i, CH_a, 3>>),
     Plain(<<ESC, CH_i, CH_a, 2>>),
     Plain(<<CH_M, 0>>),
     Plain(<<CH_M, 2>>),
     Plain(<<CH_M, 1>>),
     GCmd(<<>>, 0),
     GCmd(<<0, 165>>, 1),
     GCmd(<<254, 255>>, 3),
     GCmd(<<127, 1>>, -1),
     GCmd(<<255>>, -1),
     Chunk(<<CH_Z>>, FALSE, 1, 0, 0, 0),
     Chunk(<<FF>>, FALSE, 0, 1, 0, 0),
     Chunk(<<SUB>>, FALSE, 0, 1, 0, 0),
     Plain(<<ESC, CH_G>>),
     Plain(<<ESC, CH_i, CH_G>>),
     Plain(<<0>>),
     Plain(PrintInfoCmd(14, 0)),
     Plain(PrintInfoCmd(0, 1)),
     Plain(PrintInfoCmd(132, 2)),
     Plain(PrintInfoCmd(14, 3)),
     Setting(<<ESC, CH_i, CH_S>>),
     Setting(<<ESC, CH_i, CH_BANG>>),
     Setting(<<ESC, CH_i, CH_M, 192>>),
     Setting(<<ESC, CH_i, CH_A, 1>>),
     Setting(<<ESC, CH_i, CH_K, 221>>),
     Setting(<<ESC, CH_i, CH_d, 34, 1>>)}

\* the file ends inside a command
TruncatedCommands ==
    {Plain(<<ESC>>),
     Plain(<<ESC, CH_i>>),
     Plain(<<ESC, CH_i, CH_a>>),
     Plain(Take(PrintInfoCmd(14, 0), 8)),
     Plain(<<CH_M>>),
     Plain(<<CH_G>>),
     Plain(<<CH_G, 2>>),
     Plain(<<CH_G, 2, 0, 165>>),
     Setting(<<ESC, CH_i, CH_M>>),
     Setting(<<ESC, CH_i, CH_d, 34>>)}

Chunks == WholeCommands \cup TruncatedCommands

\* the next command of the file is c
FileContinues ==
    /\ enc_pc = "off"
    /\ pc = "parse"
    /\ ahead = <<>>
    /\ fed.cmds < MaxCmds
    /\ \E c \in Chunks :
          /\ c.setting => fed.settings < MaxSettingCmds
          /\ ahead' = c.bytes
          /\ fed' = [cmds |-> fed.cmds + 1,
                     settings |-> fed.settings + (IF c.setting THEN 1 ELSE 0),
                     rowcmds |-> fed.rowcmds + c.rowcmd,
                     printcmds |-> fed.printcmds + c.printcmd,
                     gbytes |-> Max(fed.gbytes,
                                    IF compression_mode = "PackBits"
                                    THEN c.expanded_len ELSE c.payload_len),
                     last |-> c.bytes,
                     announced |->
                         IF c.bytes = InitCmd THEN <<>>
                         ELSE IF Len(c.bytes) = 3 + InfoLen /\ c.bytes[3] = CH_z
                         THEN Append(fed.announced, c.bytes[3 + 9])
                         ELSE fed.announced]
    /\ UNCHANGED <<pc, err, hdr, pos, cmd_off, parseVars, outVars, pbVars, encVars>>

\* ------------------------------------------------------------------------
\* ptouch-encode
\* ------------------------------------------------------------------------
EncOff ==
    /\ enc_pc = "off" /\ enc_err = ""
    /\ opts = [auto_cut |-> FALSE, mirror_print |-> FALSE, draft |-> FALSE,
               half_cut |-> FALSE, no_chain |-> FALSE, special_tape |-> FALSE,
               hi_res |-> FALSE, dont_clear_print_buffer |-> FALSE,
               cut_every |-> 0, feed |-> 0, width_mm |-> 0]
    /\ n_pngs = 0 /\ images = <<>> /\ width = None /\ pages = <<>>
    /\ page_index = 0 /\ out_buffy = <<>> /\ pt_file = None

\* command lines: no flag, and each flag in one of two more
OptsSet ==
    {[auto_cut |-> FALSE, mirror_print |-> FALSE, draft |-> FALSE,
      half_cut |-> FALSE, no_chain |-> FALSE, special_tape |-> FALSE,
      hi_res |-> FALSE, dont_clear_print_buffer |-> FALSE,
      cut_every |-> 0, feed |-> 0, width_mm |-> 12],
     [auto_cut |-> FALSE, mirror_print |-> TRUE, draft |-> FALSE,
      half_cut |-> TRUE, no_chain |-> FALSE, special_tape |-> TRUE,
      hi_res |-> FALSE, dont_clear_print_buffer |-> TRUE,
      cut_every |-> 1, feed |-> 290, width_mm |-> 24],
     [auto_cut |-> TRUE, mirror_print |-> FALSE, draft |-> TRUE,
      half_cut |-> FALSE, no_chain |-> TRUE, special_tape |-> FALSE,
      hi_res |-> TRUE, dont_clear_print_buffer |-> FALSE,
      cut_every |-> 2, feed |-> 5, width_mm |-> 9]}

InitEncode ==
    /\ enc_pc = "read" /\ enc_err = ""
    /\ opts \in OptsSet
    /\ n_pngs \in 1..MaxPages
    /\ images = <<>> /\ width = None /\ pages = <<>>
    /\ page_index = 0 /\ out_buffy = <<>> /\ pt_file = None

\* PNG files as the decoder of the png crate presents them: width, bit
\* depth, and the bytes of each row (1 = white; the bits after the last
\* pixel of a row are whatever the file holds)
Image(w, depth, rs) == [width |-> w, bit_depth |-> depth, rows |-> rs]

\* rows of 12 pixels: white with the unused bits 0, white with the unused
\* bits 1, and a row with black pixels
RowWhite == <<255, 240>>
RowWhitePadded == <<255, 255>>
RowInk == <<15, 240>>

\* one row of 129 bytes: alternating 01 02 01 02 ... once inverted
WideRow == [k \in 1..129 |-> IF k % 2 = 1 THEN 254 ELSE 253]

Images ==
    {Image(12, 1, <<RowWhite>>),
     Image(12, 1, <<RowWhitePadded>>),
     Image(12, 1, <<RowInk>>),
     Image(12, 1, <<RowWhite, RowWhite>>),
     Image(12, 1, <<RowInk, RowWhite>>),
     Image(12, 1, <<RowInk, RowWhitePadded>>),
     Image(8, 1, <<<<165>>>>),
     Image(8, 8, <<Zeros(8)>>),
     Image(1032, 1, <<WideRow>>)}

\* b ^= 1 << k
XorBit(b, k) == IF Bit(b, k) THEN b - 2 ^ k ELSE b + 2 ^ k

RECURSIVE FlipBits(_, _, _)
\* for i in i..this_bits: b ^= 1 << ((8 - 1) - i)
FlipBits(b, i, this_bits) ==
    IF i < this_bits THEN FlipBits(XorBit(b, (8 - 1) - i), i + 1, this_bits) ELSE b

\* every bit of every byte is flipped
FlipRow_AllBits(buf, w) == [k \in 1..Len(buf) |-> 255 - buf[k]]

\* flip the bits, but only those that are valid: byte k (from 1) of the row
\* starts with remaining_width = w - 8 * (k - 1), saturating at 0
FlipRow(buf, w) ==
    [k \in 1..Len(buf) |->
        FlipBits(buf[k], 0, Min(Max(w - 8 * (k - 1), 0), 8))]

\* a row is packed even when it is all zero
EncodeRow_AlwaysPacked(buf, w) == pack_bits(FlipRow(buf, w))

\* what the loop over the rows pushes for one row
EncodeRow(buf, w) ==
    LET flipped == FlipRow(buf, w)
    IN  IF \A k \in 1..Len(flipped) : flipped[k] = 0
        THEN <<>>
        ELSE pack_bits(flipped)

\* the rows stay in the order read
Reverse_Kept(seq) == seq

Reverse(seq) == [k \in 1..Len(seq) |-> seq[Len(seq) + 1 - k]]

\* the loop body without the comparison of the widths
EncReadImage_NoWidthCheck ==
    /\ enc_pc = "read"
    /\ Len(images) < n_pngs
    /\ \E img \in Images :
          /\ images' = Append(images, img)
          /\ IF img.bit_depth # 1
             THEN /\ enc_pc' = "fatal"
                  /\ enc_err' = "PNG bit depth is not 1"
                  /\ width' = Some(img.width)
                  /\ UNCHANGED pages
             ELSE /\ width' = IF width = None THEN Some(img.width) ELSE width
                  /\ pages' = Append(pages,
                         Reverse([k \in 1..Len(img.rows) |->
                                     EncodeRow(img.rows[k], img.width)]))
                  /\ UNCHANGED <<enc_pc, enc_err>>
    /\ UNCHANGED <<opts, n_pngs, page_index, out_buffy, pt_file, pbVars, decVars>>

\* one iteration of the loop over opts.png_paths
EncReadImage ==
    /\ enc_pc = "read"
    /\ Len(images) < n_pngs
    /\ \E img \in Images :
          /\ images' = Append(images, img)
          /\ IF width # None /\ img.width # width[1]
             THEN /\ enc_pc' = "fatal"
                  /\ enc_err' = "PNG has different width"
                  /\ UNCHANGED <<width, pages>>
             ELSE IF img.bit_depth # 1
             THEN /\ enc_pc' = "fatal"
                  /\ enc_err' = "PNG bit depth is not 1"
                  /\ width' = Some(img.width)
                  /\ UNCHANGED pages
             ELSE /\ width' = Some(img.width)
                  /\ pages' = Append(pages,
                         Reverse([k \in 1..Len(img.rows) |->
                                     EncodeRow(img.rows[k], img.width)]))
                  /\ UNCHANGED <<enc_pc, enc_err>>
    /\ UNCHANGED <<opts, n_pngs, page_index, out_buffy, pt_file, pbVars, decVars>>

\* File::create and BufWriter::new, once every image is read
EncCreate ==
    /\ enc_pc = "read"
    /\ Len(images) = n_pngs
    /\ pt_file' = Some(<<>>)
    /\ enc_pc' = "preamble"
    /\ UNCHANGED <<enc_err, opts, n_pngs, images, width, pages, page_index,
                   out_buffy, pbVars, decVars>>

Flag(b, v) == IF b THEN v ELSE 0

\* u16::to_le_bytes, u32::to_le_bytes
U16LE(n) == <<n % 256, (n \div 256) % 256>>
U32LE(n) == <<n % 256, (n \div 256) % 256, (n \div 65536) % 256, (n \div 16777216) % 256>>

\* a print-mode byte with the two flags exchanged
mode_byte_Swapped(o) == Flag(o.auto_cut, 128) + Flag(o.mirror_print, 64)

mode_byte(o) == Flag(o.auto_cut, 64) + Flag(o.mirror_print, 128)

setting_byte(o) ==
    Flag(o.draft, 1) + Flag(o.half_cut, 4) + Flag(o.no_chain, 8)
    + Flag(o.special_tape, 16) + Flag(o.hi_res, 64)
    + Flag(o.dont_clear_print_buffer, 128)

SET_PACKBITS_COMPRESSION == <<CH_M, 2>>

\* everything written before the loop over the pages
Preamble(o) ==
    Zeros((InvalidateLen \div 10) * 10)
    \o <<ESC, CH_AT>>
    \o <<ESC, CH_i, CH_a, 1>>
    \o <<ESC, CH_i, CH_M, mode_byte(o)>>
    \o <<ESC, CH_i, CH_K, setting_byte(o)>>
    \o <<ESC, CH_i, CH_A, o.cut_every>>
    \o <<ESC, CH_i, CH_d>> \o U16LE(o.feed)
    \o SET_PACKBITS_COMPRESSION

EncPreamble ==
    /\ enc_pc = "preamble"
    /\ out_buffy' = out_buffy \o Preamble(opts)
    /\ enc_pc' = "pages"
    /\ UNCHANGED <<enc_err, opts, n_pngs, images, width, pages, page_index,
                   pt_file, pbVars, decVars>>

\* a page byte that tests for the first page before the last
page_byte_FirstWins(index, n_pages) ==
    IF index = 0 THEN 0
    ELSE IF index = n_pages - 1 THEN 2
    ELSE 1

page_byte(index, n_pages) ==
    IF index = n_pages - 1 THEN 2
    ELSE IF index = 0 THEN 0
    ELSE 1

\* the page info command
PageInfo(o, page_rows, index, n_pages) ==
    <<ESC, CH_i, CH_z, 132, 0, o.width_mm, 0>>
    \o U32LE(Len(page_rows))
    \o <<page_byte(index, n_pages), 0>>

\* one row command
RowCmd(row) ==
    IF Len(row) = 0 THEN <<CH_Z>>
    ELSE <<CH_G>> \o U16LE(Len(row)) \o row

RECURSIVE RowCmds(_)
RowCmds(page_rows) ==
    IF page_rows = <<>> THEN <<>>
    ELSE RowCmd(page_rows[1]) \o RowCmds(Tail(page_rows))

\* a terminator that never feeds
PageTerminator_AlwaysPrint(index, n_pages) == <<FF>>

PageTerminator(index, n_pages) ==
    IF index = n_pages - 1 THEN <<SUB>> ELSE <<FF>>

\* one iteration of the loop over the pages (page_index is 0-based)
EncPage ==
    /\ enc_pc = "pages"
    /\ page_index < Len(pages)
    /\ out_buffy' = out_buffy
          \o PageInfo(opts, pages[page_index + 1], page_index, Len(pages))
          \o RowCmds(pages[page_index + 1])
          \o PageTerminator(page_index, Len(pages))
    /\ page_index' = page_index + 1
    /\ UNCHANGED <<enc_pc, enc_err, opts, n_pngs, images, width, pages, pt_file,
                   pbVars, decVars>>

\* out_buffy.flush(): the buffered bytes reach the file
EncFlush ==
    /\ enc_pc = "pages"
    /\ page_index = Len(pages)
    /\ pt_file' = Some(pt_file[1] \o out_buffy)
    /\ out_buffy' = <<>>
    /\ enc_pc' = "done"
    /\ UNCHANGED <<enc_err, opts, n_pngs, images, width, pages, page_index,
                   pbVars, decVars>>

\* ptouch-decode is run on the file ptouch-encode wrote
DecodeEncoded ==
    /\ enc_pc = "done"
    /\ pc = "off"
    /\ pc' = "invalidate"
    /\ hdr' = pt_file[1]
    /\ ahead' = pt_file[1]
    /\ UNCHANGED <<err, pos, fed, cmd_off, parseVars, outVars, pbVars, encVars>>

\* ------------------------------------------------------------------------
\* Specifications
\* ------------------------------------------------------------------------
\* ptouch-decode on a captured file, or ptouch-encode and then
\* ptouch-decode on what it wrote
Init ==
    /\ PBIdle
    /\ \/ InitCapture /\ EncOff
       \/ InitEncode /\ DecOff

Next ==
    \/ FileContinues
    \/ ReadInvalidate
    \/ SkipZeros
    \/ ReadInit
    \/ CmdEOF
    \/ EscTruncated
    \/ CmdReinit
    \/ EscUnexpected
    \/ EscITruncated
    \/ CmdStatusRequest
    \/ CmdSwitchLanguage
    \/ CmdPrintInfo
    \/ CmdPrintMode
    \/ CmdCutEvery
    \/ CmdAdvanced
    \/ CmdFeedAmount
    \/ CmdAutoStatus
    \/ EscIUnexpected
    \/ CmdSelectCompression
    \/ CmdRasterTransfer
    \/ CmdZeroRaster
    \/ CmdFormFeed
    \/ CmdSubstitute
    \/ CmdUnexpected
    \/ Pad
    \/ WritePng
    \/ PngHeaderFails
    \/ EncReadImage
    \/ EncCreate
    \/ EncPreamble
    \/ EncPage
    \/ EncFlush
    \/ DecodeEncoded

Spec == Init /\ [][Next]_vars

\* the PackBits codec on its own
InitCodec == InitPB /\ DecOff /\ EncOff

SpecPB == InitCodec /\ [][NextPB]_vars

\* ------------------------------------------------------------------------
\* Claims about the PackBits codec (checked under SpecPB)
\* ------------------------------------------------------------------------

\* C1: for every byte sequence x, unpack_bits(pack_bits(x)) equals x:
\* unpacking the packed form never panics, and what it returns is x.
C1_RoundTrip ==
    pb_mode = "roundtrip" =>
        /\ pb_pc # "panic"
        /\ pb_pc = "done" => up_ret = pb_bytes

RECURSIVE EndsMidInstruction(_, _)
\* The buffer ends inside the instruction the walk from p arrives at: before
\* all v+1 bytes of a literal, or right after a repeat instruction byte.
EndsMidInstruction(buf, p) ==
    IF p >= Len(buf) THEN FALSE
    ELSE LET v == ToI8(buf[p + 1])
         IN  IF v >= 0
             THEN IF p + 1 + (v + 1) > Len(buf) THEN TRUE
                  ELSE EndsMidInstruction(buf, p + 1 + (v + 1))
             ELSE IF v = -128 THEN EndsMidInstruction(buf, p + 1)
             ELSE IF p + 2 > Len(buf) THEN TRUE
                  ELSE EndsMidInstruction(buf, p + 2)

\* C8: unpack_bits never returns a partial buffer: on an input that ends
\* inside a literal or right after a repeat instruction byte it never
\* reaches its return, and it has panicked as soon as the iterator is
\* exhausted.
C8_NoPartialBuffer ==
    EndsMidInstruction(up_buf, 0) =>
        /\ pb_pc # "done"
        /\ (pb_pc \in {"unpack", "panic"} /\ up_pos >= Len(up_buf)) => pb_pc = "panic"

\* C8 witness: decoding panicked on a truncated input after bytes had
\* already been decoded.
C8_Witness ==
    /\ pb_pc = "panic"
    /\ EndsMidInstruction(up_buf, 0)
    /\ up_ret # <<>>

\* ------------------------------------------------------------------------
\* Claims about ptouch-decode and ptouch-encode (checked under Spec)
\* ------------------------------------------------------------------------
\* the loop is about to dispatch a whole print information command
AtPrintInfo ==
    /\ pc = "parse"
    /\ Len(ahead) >= 3 + InfoLen
    /\ ahead[1] = ESC /\ ahead[2] = CH_i /\ ahead[3] = CH_z

AnnouncedValue == ahead[3 + 9]

\* the transitions the claim lists
ClaimAccepts(state, value) ==
    \/ value = 0 /\ state = "BeforeFirst"
    \/ value = 1 /\ state \in {"First", "Other"}
    \/ value = 2 /\ state # "Last"

ClaimTarget(value) ==
    IF value = 0 THEN "First" ELSE IF value = 1 THEN "Other" ELSE "Last"

\* C2: an announcement is accepted only along BeforeFirst -0-> First,
\* {First, Other} -1-> Other, {any but Last} -2-> Last, and then the state
\* moves to the target and the loop goes on; every other announcement is
\* fatal, and nothing happens after a fatal condition.
C2_PageAnnouncement ==
    [][/\ AtPrintInfo =>
            IF ClaimAccepts(page_state, AnnouncedValue)
            THEN pc' = "parse" /\ page_state' = ClaimTarget(AnnouncedValue)
            ELSE pc' = "fatal" /\ page_state' = page_state
       /\ pc = "fatal" => pc' = "fatal" /\ pos' = pos /\ parts' = parts /\ rows' = rows
      ]_vars

\* C2 witness: "first" and "midway" were accepted, a second "first" was fatal.
C2_Witness ==
    /\ pc = "fatal"
    /\ err = "announcing first page in state"
    /\ page_state = "Other"

HasRows == rows # <<>> \/ \E k \in 1..Len(parts) : parts[k].rows # <<>>

RasterModeErrors ==
    {"raster graphics transfer without raster mode entered",
     "zero raster graphics transfer without raster mode entered"}

\* C3: rows exist only when raster mode is enabled; when a 'G' or 'Z' was
\* fatal for want of raster mode, raster mode is off and no row exists.
C3_RowsOnlyInRasterMode ==
    /\ HasRows => raster_mode
    /\ (pc = "fatal" /\ err \in RasterModeErrors) => ~raster_mode /\ ~HasRows

\* C3 witness: a 'Z' read after another command, before raster mode, was fatal.
C3_Witness ==
    /\ pc = "fatal"
    /\ err = "zero raster graphics transfer without raster mode entered"
    /\ fed.cmds >= 2

RowIsBackground(row, w) ==
    \A k \in 0..(w - 1) : Bit(row[(k \div 8) + 1], 7 - (k % 8))

\* the bits of a source row after its first w pixels are all 0
RowPaddingIsZero(row, w) ==
    \A k \in w..(8 * Len(row) - 1) : ~Bit(row[(k \div 8) + 1], 7 - (k % 8))

\* ptouch-encode was given one image, and all its rows are background
BackgroundJob ==
    /\ n_pngs = 1 /\ Len(images) = 1
    /\ images[1].bit_depth = 1
    /\ \A k \in 1..Len(images[1].rows) :
          RowIsBackground(images[1].rows[k], images[1].width)

ZeroPaddedJob ==
    \A k \in 1..Len(images[1].rows) :
        RowPaddingIsZero(images[1].rows[k], images[1].width)

AllRowsAreZ == \A k \in 1..Len(pages[1]) : pages[1][k] = <<>>

DataRows == RowsOf(parts)

\* C5 as stated: every row command is 'Z', and the decoded data rows are all
\* zero and as wide as the source image.
C5_AsStated ==
    BackgroundJob =>
        /\ enc_pc = "done" => AllRowsAreZ
        /\ pc \in {"png", "done"} =>
              \A row \in DataRows :
                  /\ Len(row) = images[1].width
                  /\ \A k \in 1..Len(row) : row[k] = 0

\* C5 amended: for a background image whose unused row bits are 0, every
\* row command is 'Z', and decoding yields one data row per source row,
\* each without pixels: the decoded width is 0.
C5_BackgroundDecodesToWidthZero ==
    (BackgroundJob /\ ZeroPaddedJob) =>
        /\ enc_pc = "done" => AllRowsAreZ
        /\ pc \in {"png", "done"} =>
              /\ pixel_data_width = 0
              /\ DataRows = {<<>>}
              /\ height = Len(images[1].rows) + 1

\* C5 witness: the stream of a two-row background image was decoded and padded.
C5_Witness ==
    /\ BackgroundJob /\ ZeroPaddedJob
    /\ Len(images[1].rows) = 2
    /\ pc = "png"

\* C6: ptouch-decode accepts what ptouch-encode wrote: no fatal condition
\* in the validator or in the command loop.
C6_EncoderOutputAccepted ==
    (enc_pc = "done" /\ pc = "fatal") => err = "failed to write PNG header"

\* C7: for an accepted captured file, the image height is the number of
\* 'G' and 'Z' commands plus the number of 0x0C and 0x1A commands, and the
\* width is 8 times the largest expanded byte count of a 'G' row; the
\* minimal file (200 zeros, initialize, raster mode switch, one raw 1-byte
\* 'G' row, 0x0C) gives height 2, width 8 and a last scanline of 2s.
C7_ImageDimensions ==
    (enc_pc = "off" /\ pc = "done") =>
        /\ out_file[1].height = fed.rowcmds + fed.printcmds
        /\ out_file[1].width = 8 * fed.gbytes
        /\ Len(out_file[1].lines) = out_file[1].height
        /\ \A k \in 1..Len(out_file[1].lines) :
              Len(out_file[1].lines[k]) = out_file[1].width
        /\ (/\ hdr = Zeros(InvalidateLen) \o InitCmd
            /\ fed = [cmds |-> 3, settings |-> 0, rowcmds |-> 1, printcmds |-> 1,
                      gbytes |-> 1, last |-> <<FF>>, announced |-> <<>>])
           => /\ out_file[1].height = 2
              /\ out_file[1].width = 8
              /\ out_file[1].lines[2] = <<2, 2, 2, 2, 2, 2, 2, 2>>

\* C7 witness: the minimal file was decoded.
C7_Witness ==
    /\ enc_pc = "off" /\ pc = "done"
    /\ hdr = Zeros(InvalidateLen) \o InitCmd
    /\ fed = [cmds |-> 3, settings |-> 0, rowcmds |-> 1, printcmds |-> 1,
              gbytes |-> 1, last |-> <<FF>>, announced |-> <<>>]

\* an image read so far differs in width from the first, or is not 1 bit deep
BadImageRead ==
    \E k \in 1..Len(images) :
        images[k].width # images[1].width \/ images[k].bit_depth # 1

\* C9: the output file is created only after every image was read and
\* found valid; once a bad image was read the run has failed, the file does
\* not exist and no byte was written.
C9_ValidationBeforeOutput ==
    /\ BadImageRead =>
          enc_pc = "fatal" /\ pt_file = None /\ out_buffy = <<>>
    /\ (pt_file # None \/ out_buffy # <<>>) =>
          Len(images) = n_pngs /\ ~BadImageRead

\* C9 witness: the third image had another width than the first two.
C9_Witness ==
    /\ enc_pc = "fatal"
    /\ enc_err = "PNG has different width"
    /\ Len(images) = 3
    /\ pt_file = None

\* the number of 0x00 bytes a byte sequence starts with
LeadingZeros(h) ==
    IF \A j \in 1..Len(h) : h[j] = 0 THEN Len(h)
    ELSE (CHOOSE n \in 1..Len(h) : h[n] # 0 /\ \A j \in 1..(n - 1) : h[j] = 0) - 1

\* at least 200 zeros, further zeros, then exactly 0x1B 0x40
WellFormedStart(h) ==
    LET z == LeadingZeros(h)
    IN  /\ z >= 200
        /\ Len(h) >= z + 2
        /\ h[z + 1] = 27 /\ h[z + 2] = 64

ValidatorErrors ==
    {"failed to read invalidate command",
     "print data does not start with a valid invalidate command",
     "failed to read init command",
     "first command is not init"}

\* the validator has returned or failed, and no command was dispatched yet
ValidatorDone == pc \notin {"off", "invalidate", "skip", "init"} /\ cmd_off = -1

\* C10: the validator accepts a file if and only if it starts with at
\* least 200 zeros, any further zeros, then 0x1B 0x40; every other start is
\* fatal; on success the cursor stands right behind 0x1B 0x40.
C10_Validator ==
    ValidatorDone =>
        /\ ~(pc = "fatal" /\ err \in ValidatorErrors) <=> WellFormedStart(hdr)
        /\ pc = "parse" => pos = LeadingZeros(hdr) + 2

\* C10 witness: a file with 203 zeros was accepted, the cursor is at 205.
C10_Witness ==
    /\ pc = "parse" /\ cmd_off = -1
    /\ LeadingZeros(hdr) = 203
    /\ pos = 205

\* the command loop consumes every command it is given entirely
WholeCommandsConsumed ==
    (enc_pc = "off" /\ pc = "parse" /\ cmd_off # -1 /\ Len(ahead) > 0) =>
        ahead = fed.last

\* ------------------------------------------------------------------------
\* Claims about the stream ptouch-encode writes (checked under Spec)
\* ------------------------------------------------------------------------
\* The commands of a well-formed stream s from offset p on, read by the
\* command table of the protocol: the bytes that name the command, its
\* offset and its argument bytes.
RECURSIVE WalkStream(_, _)
WalkStream(s, p) ==
    IF p >= Len(s) THEN <<>>
    ELSE LET b == s[p + 1]
             escI == b = 27 /\ s[p + 2] = 105
             name == IF escI THEN <<27, 105, s[p + 3]>>
                     ELSE IF b = 27 THEN <<27, s[p + 2]>>
                     ELSE <<b>>
             n == IF escI
                  THEN (IF s[p + 3] = 122 THEN 10
                        ELSE IF s[p + 3] = 100 THEN 2
                        ELSE IF s[p + 3] = 83 THEN 0 ELSE 1)
                  ELSE IF b = 27 THEN 0
                  ELSE IF b = 77 THEN 1
                  ELSE IF b = 71 THEN 2 + s[p + 2] + 256 * s[p + 3]
                  ELSE 0
             first == p + Len(name) + 1
         IN  <<[name |-> name, at |-> p, arg |-> SubSeq(s, first, first + n - 1)]>>
             \o WalkStream(s, p + Len(name) + n)

\* ptouch-encode has just finished; its output file is complete
EncoderFinished == enc_pc = "done" /\ pc = "off"

WrittenCmds == WalkStream(pt_file[1], LeadingZeros(pt_file[1]))

IsPageInfo(c) == c.name = <<27, 105, 122>>
IsTerminator(c) == c.name \in {<<12>>, <<26>>}
IsRow(c) == c.name \in {<<71>>, <<90>>}

\* [2] for one page, [0, 1, .., 1, 2] for more
ExpectedPageBytes(n) ==
    IF n = 1 THEN <<2>>
    ELSE <<0>> \o [k \in 1..(n - 2) |-> 1] \o <<2>>

\* C11: the page-position bytes of the print-information commands written
\* for N pages are, in order, [2] if N = 1 and [0, 1, .., 1, 2] otherwise.
C11_PagePositionBytes ==
    EncoderFinished =>
        LET infos == SelectSeq(WrittenCmds, IsPageInfo)
        IN  [k \in 1..Len(infos) |-> infos[k].arg[9]] = ExpectedPageBytes(n_pngs)

\* C11 witness: a job of three pages was written.
C11_Witness == EncoderFinished /\ n_pngs = 3

\* C12: the written stream holds one terminator per page, after the rows of
\* the page: 0x0C for every page but the last, 0x1A for the last, which is
\* the final byte of the stream.
C12_PageTerminators ==
    EncoderFinished =>
        LET cmds == WrittenCmds
            terms == SelectSeq(cmds, IsTerminator)
            marks == SelectSeq(cmds, LAMBDA c : IsPageInfo(c) \/ IsTerminator(c))
            rowsAt(k) == {j \in 1..Len(cmds) :
                             /\ IsRow(cmds[j])
                             /\ cmds[j].at > marks[2 * k - 1].at
                             /\ cmds[j].at < marks[2 * k].at}
        IN  /\ [k \in 1..Len(terms) |-> terms[k].name[1]]
                 = [k \in 1..n_pngs |-> IF k < n_pngs THEN 12 ELSE 26]
            /\ Len(marks) = 2 * n_pngs
            /\ \A k \in 1..n_pngs :
                  /\ IsPageInfo(marks[2 * k - 1]) /\ IsTerminator(marks[2 * k])
                  /\ Cardinality(rowsAt(k)) = Len(images[k].rows)
            /\ Cardinality({j \in 1..Len(cmds) : IsRow(cmds[j])})
                 = Cardinality(UNION {rowsAt(k) : k \in 1..n_pngs})
            /\ pt_file[1][Len(pt_file[1])] = 26

\* C12 witness: a job of two pages, the first of them with two rows.
C12_Witness ==
    /\ EncoderFinished
    /\ n_pngs = 2
    /\ Len(images[1].rows) = 2

\* the bytes the claim lists for the options o
ExpectedPreamble(o) ==
    [k \in 1..200 |-> 0]
    \o <<27, 64>>
    \o <<27, 105, 97, 1>>
    \o <<27, 105, 77, (IF o.auto_cut THEN 64 ELSE 0) + (IF o.mirror_print THEN 128 ELSE 0)>>
    \o <<27, 105, 75, (IF o.draft THEN 1 ELSE 0) + (IF o.half_cut THEN 4 ELSE 0)
                      + (IF o.no_chain THEN 8 ELSE 0) + (IF o.special_tape THEN 16 ELSE 0)
                      + (IF o.hi_res THEN 64 ELSE 0)
                      + (IF o.dont_clear_print_buffer THEN 128 ELSE 0)>>
    \o <<27, 105, 65, o.cut_every>>
    \o <<27, 105, 100, o.feed % 256, o.feed \div 256>>
    \o <<77, 2>>

\* C13: before any page data the writer has emitted exactly the listed
\* commands in the listed order; in the finished stream they are its start,
\* and every 'G' and 'Z' command comes after them.
C13_PreambleOrder ==
    /\ (enc_pc = "pages" /\ page_index = 0) => out_buffy = ExpectedPreamble(opts)
    /\ EncoderFinished =>
          /\ SubSeq(pt_file[1], 1, Len(ExpectedPreamble(opts))) = ExpectedPreamble(opts)
          /\ \A j \in 1..Len(WrittenCmds) :
                (IsRow(WrittenCmds[j]) \/ IsPageInfo(WrittenCmds[j])) =>
                    WrittenCmds[j].at >= Len(ExpectedPreamble(opts))

\* C13 witness: a stream with a 'G' row was written with mirror print, half
\* cut, a cut-every value and a feed amount above 255.
C13_Witness ==
    /\ EncoderFinished
    /\ opts.mirror_print /\ opts.half_cut /\ opts.cut_every = 1 /\ opts.feed > 255
    /\ \E j \in 1..Len(WrittenCmds) : WrittenCmds[j].name = <<71>>

\* ------------------------------------------------------------------------
\* Claims about the instructions of the PackBits codec (checked under SpecPB)
\* ------------------------------------------------------------------------
\* one iteration of pack_bits has run: what it covered and what it emitted
PackCovered == pb_i' - pb_i
PackEmitted == SubSeq(pb_ret', Len(pb_ret) + 1, Len(pb_ret'))

\* C14: every iteration of pack_bits covers at most 128 input bytes and
\* appends one instruction with exactly the bytes it declares: 1-n and the
\* repeated byte for n equal bytes (2 <= n <= 128), or n-1 and the n
\* covered bytes (1 <= n <= 128); the next iteration starts right behind
\* the covered bytes.
C14_InstructionsCapped ==
    [][(pb_pc = "pack" /\ pb_i' # pb_i) =>
          LET n == PackCovered
              covered == SubSeq(pb_bytes, pb_i + 1, pb_i + n)
          IN  /\ n >= 1 /\ n <= 128
              /\ SubSeq(pb_ret', 1, Len(pb_ret)) = pb_ret
              /\ \/ /\ n >= 2
                    /\ \A k \in 1..n : covered[k] = covered[1]
                    /\ PackEmitted = <<256 + (1 - n), covered[1]>>
                 \/ PackEmitted = <<n - 1>> \o covered
      ]_vars

\* the signed value of a byte
SignedByte(u) == IF u > 127 THEN u - 256 ELSE u

\* C15: on input whose instructions are complete, each step of unpack_bits
\* takes the instruction at the cursor: v >= 0 appends the next v+1 bytes,
\* v = -128 appends nothing and consumes the instruction only, v in
\* [-127,-1] consumes one byte and appends it 1-v times; the output grows
\* by these contributions in order.
C15_UnpackInstructions ==
    [][(pb_pc = "unpack" /\ up_pos < Len(up_buf)) =>
          LET v == SignedByte(up_buf[up_pos + 1])
          IN  /\ (v >= 0 /\ up_pos + 1 + (v + 1) <= Len(up_buf)) =>
                    /\ pb_pc' = "unpack"
                    /\ up_pos' = up_pos + 1 + (v + 1)
                    /\ up_ret' = up_ret \o SubSeq(up_buf, up_pos + 2, up_pos + 2 + v)
              /\ v = -128 =>
                    /\ pb_pc' = "unpack"
                    /\ up_pos' = up_pos + 1
                    /\ up_ret' = up_ret
              /\ (v < 0 /\ v > -128 /\ up_pos + 2 <= Len(up_buf)) =>
                    /\ pb_pc' = "unpack"
                    /\ up_pos' = up_pos + 2
                    /\ up_ret' = up_ret \o [k \in 1..(1 - v) |-> up_buf[up_pos + 2]]
      ]_vars

\* C15 witness: FE 01 80 was unpacked to three bytes 01.
C15_Witness ==
    /\ pb_mode = "decode" /\ pb_pc = "done"
    /\ up_buf = <<254, 1, 128>>
    /\ up_ret = <<1, 1, 1>>

\* ------------------------------------------------------------------------
\* Claims about the decoder's command loop (checked under Spec)
\* ------------------------------------------------------------------------
\* the loop is about to dispatch the command that starts with these bytes,
\* and the file holds at least n bytes of it
AtCommand(start, n) ==
    /\ pc = "parse"
    /\ Len(ahead) >= n /\ Len(ahead) >= Len(start)
    /\ SubSeq(ahead, 1, Len(start)) = start

\* C16: the reinitialize command 1B 40 unsets media type, media width,
\* media length and the row-count hint and puts the page state back to
\* BeforeFirst; raster mode, compression mode, the maximum width, the rows
\* in progress and the parts are left as they are.
C16_ReinitializeFrame ==
    [][AtCommand(<<27, 64>>, 2) =>
          /\ pc' = "parse"
          /\ media_type' = <<>> /\ media_width' = <<>> /\ media_length' = <<>>
          /\ raster_number' = <<>>
          /\ page_state' = "BeforeFirst"
          /\ UNCHANGED <<raster_mode, compression_mode, pixel_data_width, rows, parts>>
      ]_vars

\* C16 witness: reinitialized in raster mode with a row in progress, after
\* which the media fields are unset.
C16_Witness ==
    /\ pc = "parse" /\ ahead = <<>>
    /\ fed.last = <<27, 64>>
    /\ raster_mode /\ rows # <<>>
    /\ media_width = <<>> /\ page_state = "BeforeFirst"

\* the pixels of a row of bytes, most significant bit first
PixelsOf(bytes) ==
    [k \in 1..(8 * Len(bytes)) |->
        IF Bit(bytes[((k - 1) \div 8) + 1], 7 - ((k - 1) % 8)) THEN 1 ELSE 0]

\* the data bytes of the 'G' command at the cursor
GPayload == SubSeq(ahead, 4, 3 + ahead[2] + 256 * ahead[3])

AtWholeG ==
    /\ AtCommand(<<71>>, 3)
    /\ Len(ahead) >= 3 + ahead[2] + 256 * ahead[3]
    /\ raster_mode

\* C17: the compression mode is Raw at the start and changes only when a
\* select-compression command is dispatched: payload 0 gives Raw, 2 gives
\* PackBits, any other payload is fatal; a 'G' command's data is expanded
\* by unpack_bits exactly when the mode is PackBits, and taken as it is
\* otherwise.
C17_CompressionMode ==
    [][/\ pc \in {"off", "invalidate", "skip", "init"} => compression_mode = "Raw"
       /\ compression_mode' # compression_mode => AtCommand(<<77>>, 2)
       /\ AtCommand(<<77>>, 2) =>
             IF ahead[2] = 0 THEN pc' = "parse" /\ compression_mode' = "Raw"
             ELSE IF ahead[2] = 2 THEN pc' = "parse" /\ compression_mode' = "PackBits"
             ELSE pc' = "fatal" /\ compression_mode' = compression_mode
       /\ AtWholeG =>
             IF compression_mode = "PackBits"
             THEN IF unpack_bits(GPayload).ok
                  THEN rows' = Append(rows, PixelsOf(unpack_bits(GPayload).ret))
                  ELSE pc' = "fatal" /\ rows' = rows
             ELSE rows' = Append(rows, PixelsOf(GPayload))
      ]_vars

\* C17 witness: after M 02 the data FE FF of a 'G' command became a row of
\* 24 pixels.
C17_Witness ==
    /\ pc = "parse" /\ ahead = <<>>
    /\ compression_mode = "PackBits"
    /\ fed.last = <<71, 2, 0, 254, 255>>
    /\ rows = <<[k \in 1..24 |-> 1]>>

\* every row the decoder holds, in the parts and in progress
StoredRows == RowsOf(parts) \cup {rows[k] : k \in 1..Len(rows)}

\* the padding pass turned row r into row q of width w
PaddedTo(r, q, w) ==
    /\ Len(q) = w
    /\ Len(r) <= w
    /\ SubSeq(q, 1, Len(r)) = r
    /\ \A k \in (Len(r) + 1)..w : q[k] = 0

\* C18: the maximum width never decreases and no stored row is longer than
\* it, so the assertion of the padding pass never fails; the padding pass
\* keeps the parts and their rows in place and makes every row exactly as
\* long as the final maximum width, by appending 0 values to its pixels.
C18_WidthAndPadding ==
    /\ [](/\ pc \in {"parse", "pad"} => \A r \in StoredRows : Len(r) <= pixel_data_width
          /\ pc \in {"png", "done"} => \A r \in RowsOf(parts) : Len(r) = pixel_data_width
          /\ pc = "fatal" => err # "assertion failed: row.len() <= pixel_data_width")
    /\ [][/\ pixel_data_width' >= pixel_data_width
          /\ pc = "pad" =>
                /\ pc' = "png"
                /\ Len(parts') = Len(parts)
                /\ \A j \in 1..Len(parts) :
                      /\ parts'[j].kind = parts[j].kind
                      /\ Len(parts'[j].rows) = Len(parts[j].rows)
                      /\ \A k \in 1..Len(parts[j].rows) :
                            PaddedTo(parts[j].rows[k], parts'[j].rows[k],
                                     pixel_data_width)
         ]_vars

\* C18 witness: a row of 8 pixels, received before a row of 16, was padded
\* with 8 zeros.
C18_Witness ==
    /\ pc = "png"
    /\ pixel_data_width = 16
    /\ [k \in 1..16 |-> IF k <= 8 THEN 1 ELSE 0] \in RowsOf(parts)

\* parts is Block, Marker, Block, Marker, ..
PartsAlternate ==
    \A j \in 1..Len(parts) :
        IF j % 2 = 1 THEN parts[j].kind = "LabelData"
        ELSE parts[j].kind \in {"Print", "PrintFeed"}

\* C19: while the loop runs the parts are k pairs Block, Marker for the k
\* print events so far; a print event appends the rows in progress as a
\* block and then its marker (Print for 0x0C, PrintFeed for 0x1A) and
\* leaves no row in progress; rows in progress only grow at their end
\* until then; the end of the stream appends the rows in progress as the
\* closing block, so an accepted stream gives 2k+1 parts ending in a block.
C19_PartStructure ==
    /\ [](/\ PartsAlternate
          /\ pc = "parse" => Len(parts) % 2 = 0
          /\ pc \in {"pad", "png", "done"} =>
                /\ Len(parts) % 2 = 1
                /\ enc_pc = "off" => Len(parts) = 2 * fed.printcmds + 1
                /\ enc_pc = "done" => Len(parts) = 2 * n_pngs + 1)
    /\ [][/\ (AtCommand(<<12>>, 1) \/ AtCommand(<<26>>, 1)) =>
                /\ pc' = "parse"
                /\ parts' = parts \o
                      <<[kind |-> "LabelData", rows |-> rows],
                        [kind |-> IF ahead[1] = 12 THEN "Print" ELSE "PrintFeed",
                         rows |-> <<>>]>>
                /\ rows' = <<>>
          /\ (pc = "parse" /\ ahead = <<>> /\ pc' # pc) =>
                /\ pc' = "pad"
                /\ parts' = Append(parts, [kind |-> "LabelData", rows |-> rows])
          /\ (pc = "parse" /\ rows' # rows /\ rows' # <<>>) =>
                /\ AtCommand(<<71>>, 1) \/ AtCommand(<<90>>, 1)
                /\ Len(rows') = Len(rows) + 1
                /\ SubSeq(rows', 1, Len(rows)) = rows
                /\ parts' = parts
         ]_vars

\* C19 witness: a stream with a print-and-feed and then a print event was
\* accepted: five parts.
C19_Witness ==
    /\ pc = "pad"
    /\ Len(parts) = 5
    /\ parts[2].kind = "PrintFeed" /\ parts[4].kind = "Print"

\* The number of bytes of the command that starts the byte sequence a, by
\* the command table; 0 when its leading byte or its sub-type is unknown.
\* A command cut off before its sub-type or length needs one byte more
\* than there is.
CommandLength(a) ==
    IF a[1] = 27
    THEN IF Len(a) < 2 THEN 2
         ELSE IF a[2] = 64 THEN 2
         ELSE IF a[2] # 105 THEN 0
         ELSE IF Len(a) < 3 THEN 3
         ELSE IF a[3] \in {83, 33} THEN 3
         ELSE IF a[3] \in {97, 77, 65, 75} THEN 4
         ELSE IF a[3] = 100 THEN 5
         ELSE IF a[3] = 122 THEN 13
         ELSE 0
    ELSE IF a[1] = 77 THEN 2
    ELSE IF a[1] = 71 THEN (IF Len(a) < 3 THEN 3 ELSE 3 + a[2] + 256 * a[3])
    ELSE IF a[1] \in {90, 12, 26} THEN 1
    ELSE 0

\* the command at the cursor is unknown, or the file ends inside it
AtBrokenCommand ==
    /\ pc = "parse"
    /\ ahead # <<>>
    /\ CommandLength(ahead) = 0 \/ Len(ahead) < CommandLength(ahead)

\* C20: an unknown leading byte, an unknown ESC or ESC i sub-type and an
\* end of the file inside a command are fatal; after a fatal condition no
\* command is processed and no image is written; the loop ends normally
\* only at an end of the file that is a command boundary.
C20_FatalConditions ==
    /\ [](pc = "fatal" => out_file = <<>>)
    /\ [][/\ AtBrokenCommand => pc' = "fatal"
          /\ pc = "fatal" => UNCHANGED vars
          /\ (pc' = "pad" /\ pc # "pad") => pc = "parse" /\ ahead = <<>>
         ]_vars

\* C20 witness: in raster mode the file ended inside the data of a 'G'
\* command that announced two bytes.
C20_Witness ==
    /\ pc = "fatal"
    /\ raster_mode
    /\ fed.last = <<71, 2, 0, 165>>
    /\ err = "failed to read raster graphics data"
    /\ out_file = <<>>

\* ------------------------------------------------------------------------
\* Claims about the rows ptouch-encode writes (checked under Spec)
\* ------------------------------------------------------------------------
\* the print-information and terminator commands of the written file
WrittenMarks ==
    SelectSeq(WrittenCmds, LAMBDA c : IsPageInfo(c) \/ IsTerminator(c))

\* the row commands of page p (from 1) of the written file, in file order
WrittenRows(p) ==
    SelectSeq(WrittenCmds,
              LAMBDA c : /\ IsRow(c)
                         /\ c.at > WrittenMarks[2 * p - 1].at
                         /\ c.at < WrittenMarks[2 * p].at)

\* the bytes of a command of the walked stream
CmdBytes(c) == c.name \o c.arg

\* C21: the row commands of each page are those of its source rows in
\* reversed order: row command k (from 0) of a page of n rows encodes
\* source row n-1-k; page p of the file comes from input image p.
C21_RowsReversed ==
    EncoderFinished =>
        \A p \in 1..n_pngs :
            LET src == images[p].rows
                n == Len(src)
                written == WrittenRows(p)
            IN  /\ Len(written) = n
                /\ \A k \in 0..(n - 1) :
                      CmdBytes(written[k + 1])
                          = RowCmd(EncodeRow(src[n - k], images[p].width))

\* C21 witness: two pages of two rows each were written; the rows of each
\* page differ and the pages differ.
C21_Witness ==
    /\ EncoderFinished
    /\ n_pngs = 2
    /\ images[1].rows = <<RowInk, RowWhite>>
    /\ images[2].rows = <<RowInk, RowWhitePadded>>

\* bit i (0 = most significant) of byte b, as 0 or 1
BitAt(b, i) == (b \div (2 ^ (7 - i))) % 2

\* the row with its first w bits inverted and every other bit as read
InvertedRow(row, w) ==
    LET bit(k, i) == IF 8 * (k - 1) + i < w THEN 1 - BitAt(row[k], i)
                     ELSE BitAt(row[k], i)
    IN  [k \in 1..Len(row) |->
            128 * bit(k, 0) + 64 * bit(k, 1) + 32 * bit(k, 2) + 16 * bit(k, 3)
            + 8 * bit(k, 4) + 4 * bit(k, 5) + 2 * bit(k, 6) + bit(k, 7)]

\* C22: a source row is written as a lone 'Z' exactly when the row with its
\* first `width` bits inverted (the other bits as read) is all 0x00, and
\* otherwise as 'G', the little-endian length of the PackBits encoding of
\* that inverted row, which is not zero, and the encoding.
C22_RowTranscoding ==
    EncoderFinished =>
        \A p \in 1..n_pngs :
            \A k \in 1..Len(images[p].rows) :
                LET inv == InvertedRow(images[p].rows[k], images[p].width)
                    cmd == WrittenRows(p)[Len(images[p].rows) + 1 - k]
                    enc == pack_bits(inv)
                IN  IF \A j \in 1..Len(inv) : inv[j] = 0
                    THEN cmd.name = <<90>> /\ cmd.arg = <<>>
                    ELSE /\ cmd.name = <<71>>
                         /\ Len(enc) > 0
                         /\ cmd.arg = <<Len(enc) % 256, Len(enc) \div 256>> \o enc

\* C22 witness: an image of 12 pixels with a row 0F F0 and a white row whose
\* unused bits are set was written.
C22_Witness ==
    /\ EncoderFinished
    /\ n_pngs = 1
    /\ images[1].rows = <<RowInk, RowWhitePadded>>
    /\ InvertedRow(RowInk, 12) = <<240, 0>>
    /\ InvertedRow(RowWhitePadded, 12) = <<0, 15>>

\* ------------------------------------------------------------------------
\* Further claims about ptouch-decode (checked under Spec)
\* ------------------------------------------------------------------------
\* the expanded payload of the whole 'G' command at the cursor
GExpanded ==
    IF compression_mode = "PackBits" THEN unpack_bits(GPayload).ret ELSE GPayload

\* C23: a 'G' command with the expanded payload b[0..m-1] appends a row of
\* exactly 8*m pixels, pixel 8*j+i being bit 7-i of b[j], and makes the
\* maximum width max(previous width, 8*m).
C23_BitExpansion ==
    [][(AtWholeG /\ (compression_mode = "PackBits" => unpack_bits(GPayload).ok)) =>
          LET b == GExpanded
              m == Len(b)
              row == rows'[Len(rows')]
          IN  /\ pc' = "parse"
              /\ Len(rows') = Len(rows) + 1
              /\ Len(row) = 8 * m
              /\ \A j \in 0..(m - 1) : \A i \in 0..7 :
                    row[8 * j + i + 1] = BitAt(b[j + 1], i)
              /\ pixel_data_width' =
                    IF 8 * m > pixel_data_width THEN 8 * m ELSE pixel_data_width
      ]_vars

\* C23 witness: the raw payload 00 A5 became 16 pixels, the last eight
\* 1 0 1 0 0 1 0 1.
C23_Witness ==
    /\ pc = "parse" /\ ahead = <<>>
    /\ compression_mode = "Raw"
    /\ fed.last = <<71, 2, 0, 0, 165>>
    /\ rows # <<>>
    /\ rows[Len(rows)] = <<0, 0, 0, 0, 0, 0, 0, 0, 1, 0, 1, 0, 0, 1, 0, 1>>
    /\ pixel_data_width = 16

\* the empty sequence, [2], [0, 1, .., 1] or [0, 1, .., 1, 2]
AllowedAnnouncements(q) ==
    \/ q = <<>>
    \/ q = <<2>>
    \/ /\ Len(q) >= 1 /\ q[1] = 0
       /\ \A k \in 2..(Len(q) - 1) : q[k] = 1
       /\ Len(q) >= 2 => q[Len(q)] \in {1, 2}

\* C24: the page announcements of a captured file since its last
\* reinitialize command (or its start) are all accepted exactly when they
\* form the empty sequence, [2], [0, 1, .., 1] or [0, 1, .., 1, 2]; in the
\* state Last every print-information command is fatal.
C24_AnnouncementSequences ==
    /\ []((enc_pc = "off" /\ pc = "parse" /\ ahead = <<>>) =>
             AllowedAnnouncements(fed.announced))
    /\ [][/\ (AtPrintInfo /\ enc_pc = "off") =>
                (pc' = "parse" <=> AllowedAnnouncements(fed.announced))
          /\ (AtPrintInfo /\ page_state = "Last") => pc' = "fatal"
         ]_vars

\* C24 witness: "first" and "last" were accepted, the "midway" announcement
\* that followed was fatal.
C24_Witness ==
    /\ pc = "fatal"
    /\ page_state = "Last"
    /\ fed.announced = <<0, 2, 1>>

\* C25: the output file is written by one step only, after the loop has
\* consumed the whole file without a fatal condition and every row has
\* been padded to the final width; in a fatal state, and in every state
\* before that step, there is no output file.
C25_OutputAfterSuccess ==
    /\ [](/\ pc # "done" => out_file = <<>>
          /\ pc = "done" => out_file # <<>>)
    /\ [][out_file' # out_file =>
             /\ pc = "png" /\ pc' = "done"
             /\ ahead = <<>>
             /\ \A r \in RowsOf(parts) : Len(r) = pixel_data_width
             /\ out_file = <<>>
         ]_vars

\* C25 witness: PackBits decoding of a 'G' payload was fatal; there is no
\* output file.
C25_Witness ==
    /\ pc = "fatal"
    /\ err = "unpack_bits: short read"
    /\ compression_mode = "PackBits"
    /\ out_file = <<>>

====
